---- MODULE Spec2Model ----
(***************************************************************************)
(* The task manager of src/app.py and src/database.py: one table of Task   *)
(* rows in a SQLite file (peewee model Task) and the command handlers      *)
(* list_tasks, add_task, update_task, delete_task, complete_task and       *)
(* show_task.  Every run of the program executes one handler and exits;    *)
(* the table is the only state that survives a run.                        *)
(***************************************************************************)
EXTENDS Integers, Sequences, FiniteSets, TLC

VARIABLES
    rows,   \* the task table: a function from the ids of the stored rows to the rows
    pc,     \* "start": a process is about to run a command; "exit": it has run it
    out     \* what the command of the current process printed and how it ended

vars == <<rows, pc, out>>

(***************************************************************************)
(* Bounds of the model.                                                    *)
(***************************************************************************)
\* largest id the table assigns under Spec
MaxId == 1
\* largest id the table assigns under SpecList
MaxListId == 2

(***************************************************************************)
(* Values.                                                                 *)
(***************************************************************************)
\* Python's None / SQL NULL in a text column or a text argument
None == "None"
\* Python's None / SQL NULL in the due_date column (date ordinals are >= 1)
NoDate == 0
\* a --due argument that was not given
NoArg == <<>>

\* how a command ends
OK == "ok"
NotFound == "NotFound"
Error == "Error"
Crash == "Crash"

(***************************************************************************)
(* Dates.  A --due argument is the text Y-M-D, held as the tuple of its    *)
(* numeric fields; a date is its proleptic Gregorian ordinal, as Python's  *)
(* datetime.date orders and subtracts dates.                               *)
(***************************************************************************)
IsLeap(y) == (y % 4 = 0 /\ y % 100 # 0) \/ y % 400 = 0

DaysInMonth(y, m) ==
    IF m = 2 THEN (IF IsLeap(y) THEN 29 ELSE 28)
    ELSE IF m \in {4, 6, 9, 11} THEN 30 ELSE 31

DaysBeforeYear(y) ==
    LET p == y - 1 IN p * 365 + (p \div 4) - (p \div 100) + (p \div 400)

RECURSIVE DaysBeforeMonth(_, _)
DaysBeforeMonth(y, m) ==
    IF m = 1 THEN 0 ELSE DaysBeforeMonth(y, m - 1) + DaysInMonth(y, m - 1)

toordinal(y, m, d) == DaysBeforeYear(y) + DaysBeforeMonth(y, m) + d

\* datetime.datetime.strptime(s, '%Y-%m-%d').date(): the date, or ValueError
strptime(s) ==
    IF /\ Len(s) = 3
       /\ s[1] \in 1..9999
       /\ s[2] \in 1..12
       /\ s[3] \in 1..DaysInMonth(s[1], s[2])
    THEN [ok |-> TRUE, date |-> toordinal(s[1], s[2], s[3])]
    ELSE [ok |-> FALSE, date |-> NoDate]

\* datetime.date.today(): the day on which the commands run
Today == toordinal(2024, 1, 1)

\* datetime.datetime.now, the default of created_date
Now == Today

(***************************************************************************)
(* database.py: the Task model.                                            *)
(***************************************************************************)
\* the field defaults of Task applied by Task.create to the given values
new_task(title, description, priority, due_date) ==
    [title |-> title, description |-> description, status |-> "pending",
     priority |-> priority, due_date |-> due_date, created_date |-> Now]

\* Task.validate: TRUE when it returns, FALSE when it raises ValueError
validate(task) ==
    /\ task.status \in {"pending", "done", "overdue"}
    /\ task.priority \in {"low", "medium", "high"}

\* the id SQLite gives the next inserted row (INTEGER PRIMARY KEY: largest + 1)
NewId(store) ==
    IF DOMAIN store = {} THEN 1
    ELSE (CHOOSE i \in DOMAIN store : \A j \in DOMAIN store : j <= i) + 1

\* the table with row id set to task
Put(store, id, task) ==
    [i \in DOMAIN store \cup {id} |-> IF i = id THEN task ELSE store[i]]

\* the table without row id
Remove(store, id) == [i \in DOMAIN store \ {id} |-> store[i]]

\* Task.save: validate, then write every field of the instance to its row
\* (an INSERT when the instance has no row yet; title is a NOT NULL column)
save(store, id, task) ==
    IF ~validate(task) THEN [ok |-> FALSE, store |-> store]
    ELSE IF task.title = None THEN [ok |-> FALSE, store |-> store]
    ELSE [ok |-> TRUE, store |-> Put(store, id, task)]

\* Task.from_db as written: the instance built from row id, marked overdue
\* and saved when it is not done and its due date has passed.  A NULL
\* due_date makes the comparison None < date raise TypeError.
from_db(store, id) ==
    LET instance == store[id] IN
    IF instance.status # "done" /\ instance.due_date = NoDate
    THEN [err |-> TRUE, task |-> instance, store |-> store]
    ELSE IF instance.status # "done" /\ instance.due_date < Today
    THEN LET marked == [instance EXCEPT !.status = "overdue"]
             saved == save(store, id, marked)
         IN [err |-> ~saved.ok, task |-> marked, store |-> saved.store]
    ELSE [err |-> FALSE, task |-> instance, store |-> store]

\* The same loading with Task.from_db on the path (what the method's
\* docstring describes).
load_row_from_db(store, id) == from_db(store, id)

\* How a row becomes a Task instance in Task.get_by_id and in the iteration
\* of a select: peewee passes the row's columns to the model's constructor.
\* peewee's Model has no from_db hook (that is Django's), so the classmethod
\* Task.from_db is never called and a load returns the row as stored.
load_row(store, id) == [err |-> FALSE, task |-> store[id], store |-> store]

(***************************************************************************)
(* app.py: what a command leaves on the terminal.                          *)
(***************************************************************************)
NoArgs == [none |-> TRUE]
NoNote == [kind |-> "none", n |-> 0]

\* the output of a process that has not run its command yet
NoOutput ==
    [cmd |-> "none", id |-> 0, args |-> NoArgs, code |-> OK,
     printed |-> <<>>, note |-> NoNote]

Output(cmd, id, args, code, printed, note) ==
    [cmd |-> cmd, id |-> id, args |-> args, code |-> code,
     printed |-> printed, note |-> note]

\* the columns of a task that list_tasks and show_task print
view(id, task) ==
    [id |-> id, title |-> task.title, description |-> task.description,
     status |-> task.status, priority |-> task.priority]

\* the due-date annotation of show_task
due_info(task) ==
    IF task.due_date = NoDate THEN NoNote
    ELSE LET days_left == task.due_date - Today IN
         IF days_left < 0 THEN [kind |-> "Overdue by", n |-> -days_left]
         ELSE IF days_left = 0 THEN [kind |-> "Due today", n |-> 0]
         ELSE [kind |-> "days left", n |-> days_left]

(***************************************************************************)
(* app.py: the command handlers.  Each runs in a fresh process (pc =       *)
(* "start") and is the whole of what that process does.                    *)
(***************************************************************************)
Finish(store, o) ==
    /\ rows' = store
    /\ out' = o
    /\ pc' = "exit"

\* add_task(args), args = [title, description, priority, due]
add_task(a) ==
    /\ pc = "start"
    /\ LET due == IF a.due # NoArg THEN strptime(a.due)
                  ELSE [ok |-> TRUE, date |-> NoDate]
           id == NewId(rows)
           saved == save(rows, id,
                         new_task(a.title, a.description, a.priority, due.date))
       IN IF ~due.ok
          THEN Finish(rows, Output("add", 0, a, Error, <<>>, NoNote))
          ELSE IF ~saved.ok
          THEN Finish(rows, Output("add", 0, a, Error, <<>>, NoNote))
          ELSE Finish(saved.store, Output("add", id, a, OK, <<>>, NoNote))

\* update_task without the test "if args.description"
assign_unguarded(task, a, due_date) ==
    [task EXCEPT
        !.title = IF a.title # None THEN a.title ELSE @,
        !.description = a.description,
        !.status = IF a.status # None THEN a.status ELSE @,
        !.priority = IF a.priority # None THEN a.priority ELSE @,
        !.due_date = IF a.due # NoArg THEN due_date ELSE @]

\* update_task with the status set back to the default when none is given
assign_default_status(task, a, due_date) ==
    [task EXCEPT
        !.title = IF a.title # None THEN a.title ELSE @,
        !.description = IF a.description # None THEN a.description ELSE @,
        !.status = IF a.status # None THEN a.status ELSE "pending",
        !.priority = IF a.priority # None THEN a.priority ELSE @,
        !.due_date = IF a.due # NoArg THEN due_date ELSE @]

\* the fields update_task assigns before it saves
assign(task, a, due_date) ==
    [task EXCEPT
        !.title = IF a.title # None THEN a.title ELSE @,
        !.description = IF a.description # None THEN a.description ELSE @,
        !.status = IF a.status # None THEN a.status ELSE @,
        !.priority = IF a.priority # None THEN a.priority ELSE @,
        !.due_date = IF a.due # NoArg THEN due_date ELSE @]

\* update_task that creates the task when no row has the id
update_task_upsert(id, a) ==
    /\ pc = "start"
    /\ LET task == IF id \in DOMAIN rows THEN rows[id]
                   ELSE new_task("a", None, "medium", NoDate)
           due == IF a.due # NoArg THEN strptime(a.due)
                  ELSE [ok |-> TRUE, date |-> NoDate]
           saved == save(rows, id, assign(task, a, due.date))
       IN IF ~due.ok \/ ~saved.ok
          THEN Finish(rows, Output("update", id, a, Error, <<>>, NoNote))
          ELSE Finish(saved.store, Output("update", id, a, OK, <<>>, NoNote))

\* update_task(args), args = [id, title, description, status, priority, due]
update_task(id, a) ==
    /\ pc = "start"
    /\ IF id \notin DOMAIN rows
       THEN Finish(rows, Output("update", id, a, NotFound, <<>>, NoNote))
       ELSE LET l == load_row(rows, id)
                due == IF a.due # NoArg THEN strptime(a.due)
                       ELSE [ok |-> TRUE, date |-> NoDate]
                saved == save(l.store, id, assign(l.task, a, due.date))
            IN IF l.err \/ ~due.ok
               THEN Finish(l.store, Output("update", id, a, Error, <<>>, NoNote))
               ELSE IF ~saved.ok
               THEN Finish(l.store, Output("update", id, a, Error, <<>>, NoNote))
               ELSE Finish(saved.store, Output("update", id, a, OK, <<>>, NoNote))

\* delete_task(args)
delete_task(id) ==
    /\ pc = "start"
    /\ IF id \notin DOMAIN rows
       THEN Finish(rows, Output("delete", id, NoArgs, NotFound, <<>>, NoNote))
       ELSE LET l == load_row(rows, id) IN
            IF l.err
            THEN Finish(l.store, Output("delete", id, NoArgs, Error, <<>>, NoNote))
            ELSE Finish(Remove(l.store, id),
                        Output("delete", id, NoArgs, OK, <<>>, NoNote))

\* complete_task(args)
complete_task(id) ==
    /\ pc = "start"
    /\ IF id \notin DOMAIN rows
       THEN Finish(rows, Output("complete", id, NoArgs, NotFound, <<>>, NoNote))
       ELSE LET l == load_row(rows, id)
                saved == save(l.store, id, [l.task EXCEPT !.status = "done"])
            IN IF l.err \/ ~saved.ok
               THEN Finish(l.store, Output("complete", id, NoArgs, Error, <<>>, NoNote))
               ELSE Finish(saved.store, Output("complete", id, NoArgs, OK, <<>>, NoNote))

\* show_task(args)
show_task(id) ==
    /\ pc = "start"
    /\ IF id \notin DOMAIN rows
       THEN Finish(rows, Output("show", id, NoArgs, NotFound, <<>>, NoNote))
       ELSE LET l == load_row(rows, id) IN
            IF l.err
            THEN Finish(l.store, Output("show", id, NoArgs, Error, <<>>, NoNote))
            ELSE Finish(l.store, Output("show", id, NoArgs, OK,
                                        <<view(id, l.task)>>, due_info(l.task)))

\* the query of list_tasks without its status filter
matches_unfiltered(task, a, due_date) ==
    /\ a.priority # None => task.priority = a.priority
    /\ a.due # NoArg => (task.due_date # NoDate /\ task.due_date = due_date)

\* the rows the query of list_tasks selects: each given filter is an equality
\* on the stored column (a NULL column equals nothing)
matches(task, a, due_date) ==
    /\ a.status # None => task.status = a.status
    /\ a.priority # None => task.priority = a.priority
    /\ a.due # NoArg => (task.due_date # NoDate /\ task.due_date = due_date)

selected(store, a, due_date) ==
    {id \in DOMAIN store : matches(store[id], a, due_date)}

\* every order of the rows of ids
Orders(ids) ==
    {ord \in [1..Cardinality(ids) -> ids] :
        \A i, j \in 1..Cardinality(ids) : i # j => ord[i] # ord[j]}

\* The orders in which the select of list_tasks, which has no ORDER BY, may
\* return the rows of ids: a select without a WHERE scans the table, in rowid
\* order; with a WHERE the order is that of whichever index SQLite picks.
ResultOrders(a, ids) ==
    IF a.status = None /\ a.priority = None /\ a.due = NoArg
    THEN {ord \in Orders(ids) :
            \A i, j \in 1..Cardinality(ids) : i < j => ord[i] < ord[j]}
    ELSE Orders(ids)

\* the loop of list_tasks: load and print each selected row in turn
RECURSIVE print_rows(_, _, _)
print_rows(store, ord, printed) ==
    IF ord = <<>> THEN [err |-> FALSE, store |-> store, printed |-> printed]
    ELSE LET l == load_row(store, Head(ord)) IN
         IF l.err THEN [err |-> TRUE, store |-> l.store, printed |-> printed]
         ELSE print_rows(l.store, Tail(ord),
                         Append(printed, view(Head(ord), l.task)))

\* list_tasks(args), args = [status, priority, due, sort]; ord is the order in
\* which the database returns the selected rows.  args.sort is never read.
\* The parse of --due is outside any try: a ValueError ends the process.
list_tasks(a, ord) ==
    /\ pc = "start"
    /\ LET due == IF a.due # NoArg THEN strptime(a.due)
                  ELSE [ok |-> TRUE, date |-> NoDate]
       IN IF ~due.ok
          THEN /\ ord = <<>>
               /\ Finish(rows, Output("list", 0, a, Crash, <<>>, NoNote))
          ELSE /\ ord \in ResultOrders(a, selected(rows, a, due.date))
               /\ LET r == print_rows(rows, ord, <<>>) IN
                  Finish(r.store, Output("list", 0, a,
                                         IF r.err THEN Crash ELSE OK,
                                         r.printed, NoNote))

\* main returns and the process ends; the next run starts with a clear terminal
exit ==
    /\ pc = "exit"
    /\ pc' = "start"
    /\ out' = NoOutput
    /\ UNCHANGED rows

(***************************************************************************)
(* The arguments the commands are run with.  The handlers take an argparse *)
(* Namespace; the sets hold the values main's parsers pass and, for the    *)
(* enumerations, one value outside the choices and a priority of None, so  *)
(* that Task.validate is reached with values it rejects.                   *)
(***************************************************************************)
Yesterday == <<2023, 12, 31>>
DueToday == <<2024, 1, 1>>
Tomorrow == <<2024, 1, 2>>
\* not a date: February has 29 days in 2024
BadDate == <<2024, 2, 30>>

AddArgs ==
    [title : {"a", None}, description : {None},
     priority : {"medium", "high", None},
     due : {NoArg, Yesterday, DueToday, Tomorrow, BadDate}]

NoUpdate ==
    [title |-> None, description |-> None, status |-> None,
     priority |-> None, due |-> NoArg]

UpdateArgs ==
    {NoUpdate}
    \cup {[NoUpdate EXCEPT !.title = "b"], [NoUpdate EXCEPT !.description = "d"]}
    \cup {[NoUpdate EXCEPT !.status = s] : s \in {"pending", "done", "overdue", "started"}}
    \cup {[NoUpdate EXCEPT !.priority = p] : p \in {"low", "urgent"}}
    \cup {[NoUpdate EXCEPT !.due = d] : d \in {Yesterday, Tomorrow, BadDate}}
    \cup {[NoUpdate EXCEPT !.title = "b", !.description = "d"],
          [NoUpdate EXCEPT !.status = "pending", !.due = Tomorrow],
          [NoUpdate EXCEPT !.status = "started", !.title = "b"],
          [title |-> "b", description |-> "d", status |-> "done",
           priority |-> "low", due |-> DueToday]}

NoFilter == [status |-> None, priority |-> None, due |-> NoArg, sort |-> "created"]

ListArgs ==
    {[NoFilter EXCEPT !.sort = k] : k \in {"priority", "due", "created"}}
    \cup {[NoFilter EXCEPT !.status = s] : s \in {"pending", "done", "overdue"}}
    \cup {[NoFilter EXCEPT !.priority = "high"]}
    \cup {[NoFilter EXCEPT !.due = d] : d \in {Yesterday, BadDate}}

\* the arguments of SpecList: the fields the listing reads
ListAddArgs ==
    [title : {"a"}, description : {None}, priority : {"medium", "high"},
     due : {NoArg, Yesterday, Tomorrow}]

ListUpdateArgs ==
    {[NoUpdate EXCEPT !.status = s] : s \in {"pending", "overdue"}}
    \cup {[NoUpdate EXCEPT !.priority = "high"], [NoUpdate EXCEPT !.due = Yesterday]}

(***************************************************************************)
(* The specifications.                                                     *)
(***************************************************************************)
\* database.py creates the table when it is absent: the first run finds it empty
Init ==
    /\ rows = <<>>
    /\ pc = "start"
    /\ out = NoOutput

Next ==
    \/ \E a \in AddArgs : NewId(rows) <= MaxId /\ add_task(a)
    \/ \E id \in 1..(MaxId + 1), a \in UpdateArgs : update_task(id, a)
    \/ \E id \in 1..(MaxId + 1) : delete_task(id)
    \/ \E id \in 1..(MaxId + 1) : complete_task(id)
    \/ \E id \in 1..(MaxId + 1) : show_task(id)
    \/ \E a \in ListArgs, ord \in UNION {Orders(S) : S \in SUBSET DOMAIN rows} :
            list_tasks(a, ord)
    \/ exit

Spec == Init /\ [][Next]_vars

NextList ==
    \/ \E a \in ListAddArgs : NewId(rows) <= MaxListId /\ add_task(a)
    \/ \E id \in 1..(MaxListId + 1), a \in ListUpdateArgs : update_task(id, a)
    \/ \E id \in 1..(MaxListId + 1) : delete_task(id)
    \/ \E id \in 1..(MaxListId + 1) : complete_task(id)
    \/ \E id \in 1..(MaxListId + 1) : show_task(id)
    \/ \E a \in ListArgs, ord \in UNION {Orders(S) : S \in SUBSET DOMAIN rows} :
            list_tasks(a, ord)
    \/ exit

SpecList == Init /\ [][NextList]_vars

(***************************************************************************)
(* The properties.                                                         *)
(***************************************************************************)
\* the step of a process that runs one of the commands cmds
Ran(cmds) == pc = "start" /\ pc' = "exit" /\ out'.cmd \in cmds

\* the derivation condition of the overdue rule
PastDue(task) ==
    task.status # "done" /\ task.due_date # NoDate /\ task.due_date < Today

\* the status of a task under the overdue rule
Derived(task) == IF PastDue(task) THEN "overdue" ELSE task.status

\* the ids of the printed rows, and the printed rows of one id
PrintedIds(o) == {o.printed[i].id : i \in 1..Len(o.printed)}
PrintedOf(o, id) == {o.printed[i] : i \in {j \in 1..Len(o.printed) : o.printed[j].id = id}}

\* C1: every read (show, list) of a stored task that is past due and not done
\* prints status overdue and leaves the stored row with status overdue.
C1_ReadMarksOverdue ==
    [][Ran({"show", "list"}) =>
        \A id \in DOMAIN rows :
            (PastDue(rows[id]) /\ id \in PrintedIds(out')) =>
                /\ \A v \in PrintedOf(out', id) : v.status = "overdue"
                /\ id \in DOMAIN rows'
                /\ rows'[id].status = "overdue"]_vars

\* C2: update of an existing task leaves every field that was not supplied,
\* the id and created_date as they were stored before the call.
C2_UpdateFrame ==
    [][(Ran({"update"}) /\ out'.id \in DOMAIN rows) =>
        LET id == out'.id
            a == out'.args
        IN /\ DOMAIN rows' = DOMAIN rows
           /\ \A other \in DOMAIN rows \ {id} : rows'[other] = rows[other]
           /\ a.title = None => rows'[id].title = rows[id].title
           /\ a.description = None => rows'[id].description = rows[id].description
           /\ a.status = None => rows'[id].status = rows[id].status
           /\ a.priority = None => rows'[id].priority = rows[id].priority
           /\ a.due = NoArg => rows'[id].due_date = rows[id].due_date
           /\ rows'[id].created_date = rows[id].created_date]_vars

\* an update that supplied only --status succeeded on a task whose other
\* fields had been changed from their defaults before
C2_Witness ==
    /\ out.cmd = "update" /\ out.code = OK
    /\ out.args = [NoUpdate EXCEPT !.status = "done"]
    /\ rows[out.id].status = "done"
    /\ rows[out.id].title = "b"
    /\ rows[out.id].description = "d"
    /\ rows[out.id].priority = "low"
    /\ rows[out.id].due_date # NoDate

\* C3: update, complete, delete and show with an id that has no row fail with
\* NotFound and leave the table as it was.
C3_NotFound ==
    [][(Ran({"update", "complete", "delete", "show"}) /\ out'.id \notin DOMAIN rows) =>
        (out'.code = NotFound /\ rows' = rows)]_vars

\* update 2 --status done failed with NotFound while the table holds row 1 only
C3_Witness ==
    /\ out.cmd = "update" /\ out.code = NotFound
    /\ out.args.status = "done"
    /\ out.id \notin DOMAIN rows
    /\ DOMAIN rows = {1}

\* the validation rule as the specification states it
Acceptable(task) ==
    /\ task.status \in {"pending", "done", "overdue"}
    /\ task.priority \in {None, "high", "medium", "low"}

\* C4: a persist (the save of add and of update) is accepted exactly when
\* status is valid and priority is null or valid; a rejected persist leaves
\* the table unchanged.
C4_ValidationRule ==
    [][/\ (Ran({"add"}) /\ out'.args.title # None
              /\ (out'.args.due # NoArg => strptime(out'.args.due).ok)) =>
            LET a == out'.args
                task == new_task(a.title, a.description, a.priority, NoDate)
            IN /\ out'.code = OK <=> Acceptable(task)
               /\ out'.code # OK => rows' = rows
       /\ (Ran({"update"}) /\ out'.id \in DOMAIN rows
              /\ (out'.args.due # NoArg => strptime(out'.args.due).ok)) =>
            LET a == out'.args
                task == assign(rows[out'.id], a, NoDate)
            IN /\ out'.code = OK <=> Acceptable(task)
               /\ out'.code # OK => rows' = rows]_vars

\* C5: a read of a task that is not past due (done, no due date, or due today
\* or later) succeeds, prints the stored status and leaves the row as it was;
\* a read changes no row other than by marking a past-due task overdue.
C5_ReadFrame ==
    [][Ran({"show", "list"}) =>
        /\ DOMAIN rows' = DOMAIN rows
        /\ \A id \in DOMAIN rows :
              /\ rows'[id] # rows[id] =>
                    (PastDue(rows[id])
                        /\ rows'[id] = [rows[id] EXCEPT !.status = "overdue"])
              /\ ~PastDue(rows[id]) =>
                    /\ rows'[id] = rows[id]
                    /\ \A v \in PrintedOf(out', id) : v.status = rows[id].status
                    /\ (out'.cmd = "show" /\ out'.id = id) =>
                          (out'.code = OK /\ id \in PrintedIds(out'))]_vars

\* show printed a pending task that has no due date
C5_Witness ==
    /\ out.cmd = "show" /\ out.code = OK
    /\ out.id \in DOMAIN rows
    /\ rows[out.id].status = "pending"
    /\ rows[out.id].due_date = NoDate
    /\ out.printed[1].status = "pending"

\* C6: list --status done prints exactly the stored tasks whose derived
\* status is done.
C6_ListDone ==
    (out.cmd = "list" /\ out.code = OK
        /\ out.args = [NoFilter EXCEPT !.status = "done"]) =>
        /\ PrintedIds(out) = {id \in DOMAIN rows : Derived(rows[id]) = "done"}
        /\ Len(out.printed) = Cardinality(PrintedIds(out))

\* list --status done printed the one done task of a table that also holds a
\* past-due task that is not done
C6_Witness ==
    /\ out.cmd = "list" /\ out.code = OK
    /\ out.args = [NoFilter EXCEPT !.status = "done"]
    /\ Len(out.printed) = 1
    /\ \E id \in DOMAIN rows : Derived(rows[id]) = "overdue"
    /\ \E id \in DOMAIN rows : rows[id].status = "done" /\ rows[id].due_date # NoDate

\* the order of the values of a text column (high < low < medium)
PriorityRank(p) ==
    IF p = None THEN 0 ELSE IF p = "high" THEN 1 ELSE IF p = "low" THEN 2 ELSE 3

\* the value list --sort k orders by
SortKey(k, task) ==
    IF k = "priority" THEN PriorityRank(task.priority)
    ELSE IF k = "due" THEN task.due_date
    ELSE task.created_date

\* C7: list --sort k prints the tasks in ascending order of field k.
C7_ListSorted ==
    (out.cmd = "list" /\ out.code = OK) =>
        \A i \in 1..(Len(out.printed) - 1) :
            SortKey(out.args.sort, rows[out.printed[i].id])
                <= SortKey(out.args.sort, rows[out.printed[i + 1].id])

\* C8: add, update (of an existing task) and list with a --due that is not a
\* date report an error, return normally and leave the table unchanged.
C8_BadDateReported ==
    [][(/\ Ran({"add", "update", "list"})
        /\ out'.args.due # NoArg
        /\ ~strptime(out'.args.due).ok
        /\ out'.cmd = "update" => out'.id \in DOMAIN rows) =>
            (out'.code = Error /\ rows' = rows)]_vars

\* C9: show of a task with a due date annotates it with the day difference,
\* and a pending task due yesterday is shown as overdue, "Overdue by 1 days".
C9_ShowAnnotation ==
    [][(Ran({"show"}) /\ out'.id \in DOMAIN rows
            /\ rows[out'.id].due_date # NoDate) =>
        LET task == rows[out'.id]
            n == Today - task.due_date
        IN /\ out'.code = OK
           /\ n > 0 => out'.note = [kind |-> "Overdue by", n |-> n]
           /\ n = 0 => out'.note = [kind |-> "Due today", n |-> 0]
           /\ n < 0 => out'.note = [kind |-> "days left", n |-> -n]
           /\ (n = 1 /\ task.status = "pending") =>
                 out'.printed[1].status = "overdue"]_vars

\* C10: a stored status overdue is changed by no read and by no update that
\* leaves --status out; it changes only by an update that supplies --status
\* or by complete.
C10_OverdueSticky ==
    [][\A id \in DOMAIN rows :
        (rows[id].status = "overdue" /\ id \in DOMAIN rows'
            /\ rows'[id].status # "overdue") =>
                \/ Ran({"update"}) /\ out'.id = id /\ out'.args.status # None
                \/ Ran({"complete"}) /\ out'.id = id]_vars

\* an update that moved only the due date into the future succeeded on an
\* overdue task, which is still stored as overdue
C10_Witness ==
    /\ out.cmd = "update" /\ out.code = OK
    /\ out.args = [NoUpdate EXCEPT !.due = Tomorrow]
    /\ rows[out.id].status = "overdue"
    /\ rows[out.id].due_date > Today

====
